---- MODULE Spec2Model ----
(***************************************************************************)
(* SignGPT Crew Server (src/app.py): the module-level vocabulary load and  *)
(* the five HTTP handlers of the FastAPI application.                      *)
(*                                                                         *)
(* A Python str is a sequence of one-character strings; a message string   *)
(* (exception text, HTTP detail) is a sequence of text fragments, so that  *)
(* concatenation is \o and "contains" is a contiguous sub-sequence.        *)
(* The external crew (crew.SginGPTCrew) is an opaque black box: each of    *)
(* its three calls either returns or raises, chosen nondeterministically.  *)
(***************************************************************************)
EXTENDS Integers, Sequences, FiniteSets, TLC

VARIABLES
    phase,        \* "starting" | "serving" | "failed": import of app.py
    file,         \* ./data/english_words.json as found on disk
    env,          \* the process environment's OPENAI_API_KEY
    startupError, \* the exception that ended the import, "" if none
    asl_dataset,  \* module global asl_dataset (app.py:33)
    endpoint,     \* the handler serving the request in progress, "none" when idle
    request,      \* the body of the request in progress
    response,     \* what leaves the handler: a body or an HTTP error
    crewCount,    \* SginGPTCrew instances constructed so far
    crewLog       \* the use the request in progress made of the crew

vars == <<phase, file, env, startupError, asl_dataset, endpoint, request,
          response, crewCount, crewLog>>

----------------------------------------------------------------------------
(* Bounds of the model *)

\* longest token list of a request body
MaxTokens == 3
\* longest exhaustively enumerated vocabulary file
MaxFileLen == 1
\* longest vocabulary file (patterned files reach past the sample size)
LongFileLen == 21
\* crew instances constructed in one run
MaxCrews == 2

\* app.py:139  asl_dataset[:20]
SampleSize == 20

----------------------------------------------------------------------------
(* Strings and str.upper() *)

\* str.upper() on one character: cased letters map to their capital, the
\* sharp s maps to the two characters "SS", everything else is unchanged.
UpperChar(c) ==
    CASE c = "a" -> <<"A">>
      [] c = "b" -> <<"B">>
      [] c = "s" -> <<"S">>
      [] c = "ß" -> <<"S", "S">>
      [] OTHER   -> <<c>>

RECURSIVE Upper(_)
\* str.upper(): the concatenation of the characters' upper-case mappings
Upper(s) ==
    IF s = <<>> THEN <<>> ELSE UpperChar(Head(s)) \o Upper(Tail(s))

\* the strings that requests and the vocabulary file are drawn from
Tokens == { <<"a", "b">>, <<"A", "B">>, <<"ß">>, <<"b", "1">> }

\* a JSON string value and a JSON number value of the vocabulary file
StrValue(s) == [type |-> "str", val |-> s]
IntValue == [type |-> "int", val |-> <<>>]

FileValues == { StrValue(s) : s \in {<<"a", "b">>, <<"s", "s">>, <<"b", "1">>} }
                  \cup {IntValue}

SeqsUpTo(S, n) == UNION { [1..k -> S] : k \in 0..n }

\* a long file whose values cycle through three strings
Pattern == << <<"a", "b">>, <<"s", "s">>, <<"b", "1">> >>
LongFile(n) == [i \in 1..n |-> StrValue(Pattern[(i % 3) + 1])]

\* the values of the parsed JSON object, in key order
Files ==
    { [kind |-> "missing", values |-> <<>>],
      [kind |-> "malformed", values |-> <<>>] }
    \cup { [kind |-> "object", values |-> v] : v \in SeqsUpTo(FileValues, MaxFileLen) }
    \cup { [kind |-> "object", values |-> LongFile(n)] : n \in (SampleSize - 1)..LongFileLen }

\* OPENAI_API_KEY: unset, set to the empty string, or set to a key
Envs == { [set |-> FALSE, value |-> <<>>],
          [set |-> TRUE, value |-> <<>>],
          [set |-> TRUE, value |-> <<"s", "k">>] }

TokenLists == SeqsUpTo(Tokens, MaxTokens)

----------------------------------------------------------------------------
(* Startup: app.py:29-36 *)

\* asl_dataset = [asl_dataset_raw[word].upper() for word in asl_dataset_raw]
UpperAll(values) == [i \in 1..Len(values) |-> Upper(values[i].val)]

\* variant: a missing file is swallowed and the service starts on an empty list
LoadOutcome_MissingIsEmpty(f) ==
    CASE f.kind = "missing" ->
           [error |-> "", dataset |-> <<>>]
      [] f.kind = "malformed" ->
           [error |-> "JSONDecodeError", dataset |-> <<>>]
      [] f.kind = "object" /\ \E i \in 1..Len(f.values) : f.values[i].type # "str" ->
           [error |-> "AttributeError", dataset |-> <<>>]
      [] OTHER ->
           [error |-> "", dataset |-> [i \in 1..Len(f.values) |-> Upper(f.values[i].val)]]

\* The outcome of lines 30-36 on a file: the exception that leaves the
\* module ("" if none) and the list bound to asl_dataset.
LoadOutcome(f) ==
    CASE f.kind = "missing" ->
           [error |-> "RuntimeError", dataset |-> <<>>]
      [] f.kind = "malformed" ->
           [error |-> "JSONDecodeError", dataset |-> <<>>]
      [] f.kind = "object" /\ \E i \in 1..Len(f.values) : f.values[i].type # "str" ->
           [error |-> "AttributeError", dataset |-> <<>>]
      [] OTHER ->
           [error |-> "", dataset |-> UpperAll(f.values)]

LoadDataset ==
    /\ phase = "starting"
    /\ LET out == LoadOutcome(file) IN
         /\ startupError' = out.error
         /\ asl_dataset' = out.dataset
         /\ phase' = IF out.error = "" THEN "serving" ELSE "failed"
    /\ UNCHANGED <<file, env, endpoint, request, response, crewCount, crewLog>>

----------------------------------------------------------------------------
(* The environment *)

\* variant: os.getenv("OPENAI_API_KEY") is not None, so "" counts as a key
KeyConfigured_IsSet(e) == e.set

\* bool(os.getenv("OPENAI_API_KEY")): None and "" are both falsy
KeyConfigured(e) == e.set /\ e.value # <<>>

\* the crew log of a request that never reaches the crew
NoCrew == [steps |-> <<>>, kickoffs |-> <<>>]

----------------------------------------------------------------------------
(* GET / : app.py:71-78 *)

root == [status_code |-> 200,
         body |-> [message |-> "SignGPT Crew Server is running",
                   docs |-> "/docs", health |-> "/health"]]

Root ==
    /\ phase = "serving"
    /\ endpoint = "none"
    /\ endpoint' = "/"
    /\ request' = <<>>
    /\ response' = root
    /\ crewLog' = NoCrew
    /\ UNCHANGED <<phase, file, env, startupError, asl_dataset, crewCount>>

----------------------------------------------------------------------------
(* GET /health : app.py:81-91 *)

\* variant: the status reports a key that is present but empty as healthy
health_check_KeyPresent(e, dataset) ==
    [status_code |-> 200,
     body |-> [status |-> IF e.set THEN "healthy" ELSE "warning",
               message |-> IF e.set
                             THEN "Service is running"
                             ELSE "Service running but OPENAI_API_KEY not configured",
               asl_dataset_size |-> Len(dataset)]]

health_check(e, dataset) ==
    LET openai_key_configured == KeyConfigured(e) IN
    [status_code |-> 200,
     body |-> [status |-> IF openai_key_configured THEN "healthy" ELSE "warning",
               message |-> IF openai_key_configured
                             THEN "Service is running"
                             ELSE "Service running but OPENAI_API_KEY not configured",
               asl_dataset_size |-> Len(dataset)]]

HealthCheck ==
    /\ phase = "serving"
    /\ endpoint = "none"
    /\ endpoint' = "/health"
    /\ request' = <<>>
    /\ response' = health_check(env, asl_dataset)
    /\ crewLog' = NoCrew
    /\ UNCHANGED <<phase, file, env, startupError, asl_dataset, crewCount>>

----------------------------------------------------------------------------
(* The external crew, as process_tokens sees it *)

\* exception texts and crew results, as message strings
ExcTexts == { <<>>, <<"rate limit">> }
CrewResults == { [raw |-> <<"Hello">>], [raw |-> <<>>] }

NoResult == [raw |-> <<>>]

\* What the black box does in one request: the call that raises (`at`) with
\* the exception's text, or at = "none" and the object kickoff returns.
CrewOutcomes ==
    { [at |-> a, text |-> t, result |-> NoResult] :
        a \in {"SginGPTCrew", "sgin_gpt_crew", "kickoff"}, t \in ExcTexts }
    \cup { [at |-> "none", text |-> <<>>, result |-> r] : r \in CrewResults }

\* str(result) of the crew's output object
StrResult(r) == r.raw

HTTPException(code, detail) ==
    [type |-> "HTTPException", status_code |-> code, detail |-> detail]
Exception(text) ==
    [type |-> "Exception", status_code |-> 0, detail |-> text]

\* str(e): an HTTPException prints as "<status_code>: <detail>", any other
\* exception as its message
StrExc(e) ==
    IF e.type = "HTTPException"
      THEN <<ToString(e.status_code), ": ">> \o e.detail
      ELSE e.detail

\* variant: one crew object built at first use and shared by all requests
get_crew_instance_Cached(count) == 1

\* get_crew_instance(), app.py:66-68: a new SginGPTCrew object each call;
\* objects are numbered in construction order.
get_crew_instance(count) == count + 1

----------------------------------------------------------------------------
(* POST /process-tokens : app.py:94-131 *)

KeyMissingDetail ==
    <<"OPENAI_API_KEY not configured. Please set it in your environment or .env file.">>
EmptyWordsDetail == <<"Words list cannot be empty">>
ErrorPrefix == <<"Error processing tokens: ">>

Returned(value, steps, kickoffs, made) ==
    [raised |-> FALSE, exc |-> Exception(<<>>), value |-> value,
     steps |-> steps, kickoffs |-> kickoffs, made |-> made]
Raised(exc, steps, kickoffs, made) ==
    [raised |-> TRUE, exc |-> exc, value |-> NoResult,
     steps |-> steps, kickoffs |-> kickoffs, made |-> made]

\* The body of the try block, lines 104-125: what it returns or raises, the
\* calls it made in order, the kickoffs it issued and the instances it made.
TryBody(e, words, dataset, count, outcome) ==
    IF ~KeyConfigured(e)
      THEN Raised(HTTPException(500, KeyMissingDetail), <<"getenv">>, <<>>, 0)
    ELSE IF words = <<>>
      THEN Raised(HTTPException(400, EmptyWordsDetail), <<"getenv", "words">>, <<>>, 0)
    ELSE IF outcome.at = "SginGPTCrew"
      THEN Raised(Exception(outcome.text),
                  <<"getenv", "words", "get_crew_instance">>, <<>>, 0)
    ELSE LET crew_instance == get_crew_instance(count)
             kick == [instance |-> crew_instance,
                      inputs |-> [words |-> words, ASL_dataset |-> dataset]]
         IN
         IF outcome.at = "sgin_gpt_crew"
           THEN Raised(Exception(outcome.text),
                       <<"getenv", "words", "get_crew_instance", "sgin_gpt_crew">>,
                       <<>>, crew_instance)
         ELSE IF outcome.at = "kickoff"
           THEN Raised(Exception(outcome.text),
                       <<"getenv", "words", "get_crew_instance", "sgin_gpt_crew",
                         "kickoff">>,
                       <<kick>>, crew_instance)
         ELSE Returned(outcome.result,
                       <<"getenv", "words", "get_crew_instance", "sgin_gpt_crew",
                         "kickoff">>,
                       <<kick>>, crew_instance)

\* variant: the 500 carries a fixed message and drops str(e)
ExceptClause_NoText(exc) ==
    [status_code |-> 500, detail |-> <<"Error processing tokens">>]

\* except Exception as e (lines 127-131): every exception of the try block,
\* the handler's own HTTPExceptions included, becomes an HTTP 500.
ExceptClause(exc) ==
    [status_code |-> 500, detail |-> ErrorPrefix \o StrExc(exc)]

process_tokens(e, words, dataset, count, outcome) ==
    LET t == TryBody(e, words, dataset, count, outcome) IN
    [response |-> IF t.raised
                    THEN ExceptClause(t.exc)
                    ELSE [status_code |-> 200,
                          body |-> [result |-> StrResult(t.value)]],
     steps |-> t.steps, kickoffs |-> t.kickoffs, made |-> t.made]

ProcessTokens ==
    /\ phase = "serving"
    /\ endpoint = "none"
    /\ \E words \in TokenLists, outcome \in CrewOutcomes :
         LET out == process_tokens(env, words, asl_dataset, crewCount, outcome) IN
           /\ out.made <= MaxCrews
           /\ endpoint' = "/process-tokens"
           /\ request' = [words |-> words]
           /\ response' = out.response
           /\ crewCount' = IF out.made > crewCount THEN out.made ELSE crewCount
           /\ crewLog' = [steps |-> out.steps, kickoffs |-> out.kickoffs,
                          existing |-> crewCount, outcome |-> outcome]
    /\ UNCHANGED <<phase, file, env, startupError, asl_dataset>>

----------------------------------------------------------------------------
(* GET /asl-dataset : app.py:134-141 *)

\* the Python slice l[:n], n >= 0
SliceTo(l, n) == SubSeq(l, 1, IF Len(l) < n THEN Len(l) ELSE n)

\* variant: the slice stops one entry early
get_asl_dataset_OffByOne(dataset) ==
    [status_code |-> 200,
     body |-> [total_words |-> Len(dataset),
               sample_words |-> SliceTo(dataset, SampleSize - 1),
               description |-> "Available ASL vocabulary tokens"]]

get_asl_dataset(dataset) ==
    [status_code |-> 200,
     body |-> [total_words |-> Len(dataset),
               sample_words |-> SliceTo(dataset, SampleSize),
               description |-> "Available ASL vocabulary tokens"]]

GetAslDataset ==
    /\ phase = "serving"
    /\ endpoint = "none"
    /\ endpoint' = "/asl-dataset"
    /\ request' = <<>>
    /\ response' = get_asl_dataset(asl_dataset)
    /\ crewLog' = NoCrew
    /\ UNCHANGED <<phase, file, env, startupError, asl_dataset, crewCount>>

----------------------------------------------------------------------------
(* POST /validate-tokens : app.py:144-172 *)

\* x in l, for a Python list
InList(x, l) == \E i \in 1..Len(l) : l[i] = x

\* d[k] = v on a dict: a new key is added, an existing key is overwritten
DictSet(d, k, v) == [x \in (DOMAIN d) \cup {k} |-> IF x = k THEN v ELSE d[x]]

\* Optional[str]: None is <<>>, a string s is <<s>>
None == <<>>
Some(s) == <<s>>

\* variant: the else is lost, every token is also appended to invalid_tokens
ValidateStep_NoElse(acc, token, dataset) ==
    LET token_upper == Upper(token)
        valid == InList(token_upper, dataset)
    IN
    [acc EXCEPT
       !.valid_tokens = IF valid THEN Append(@, token_upper) ELSE @,
       !.invalid_tokens = Append(@, token),
       !.validation_results =
           DictSet(@, token,
                   IF valid THEN [valid |-> TRUE, normalized |-> Some(token_upper)]
                            ELSE [valid |-> FALSE, normalized |-> None])]

\* variant: the lookup uses the token as given
ValidateStep_NoUpper(acc, token, dataset) ==
    LET token_upper == Upper(token) IN
    IF InList(token, dataset)
      THEN [acc EXCEPT
              !.valid_tokens = Append(@, token_upper),
              !.validation_results =
                  DictSet(@, token, [valid |-> TRUE, normalized |-> Some(token_upper)])]
      ELSE [acc EXCEPT
              !.invalid_tokens = Append(@, token),
              !.validation_results =
                  DictSet(@, token, [valid |-> FALSE, normalized |-> None])]

\* variant: a valid token's result is keyed by its uppercased form
ValidateStep_KeyUpper(acc, token, dataset) ==
    LET token_upper == Upper(token) IN
    IF InList(token_upper, dataset)
      THEN [acc EXCEPT
              !.valid_tokens = Append(@, token_upper),
              !.validation_results =
                  DictSet(@, token_upper,
                          [valid |-> TRUE, normalized |-> Some(token_upper)])]
      ELSE [acc EXCEPT
              !.invalid_tokens = Append(@, token),
              !.validation_results =
                  DictSet(@, token, [valid |-> FALSE, normalized |-> None])]

\* one iteration of the loop, lines 154-161
ValidateStep(acc, token, dataset) ==
    LET token_upper == Upper(token) IN
    IF InList(token_upper, dataset)
      THEN [acc EXCEPT
              !.valid_tokens = Append(@, token_upper),
              !.validation_results =
                  DictSet(@, token, [valid |-> TRUE, normalized |-> Some(token_upper)])]
      ELSE [acc EXCEPT
              !.invalid_tokens = Append(@, token),
              !.validation_results =
                  DictSet(@, token, [valid |-> FALSE, normalized |-> None])]

RECURSIVE ValidateLoop(_, _, _)
\* for token in tokens (line 153)
ValidateLoop(acc, tokens, dataset) ==
    IF tokens = <<>>
      THEN acc
      ELSE ValidateLoop(ValidateStep(acc, Head(tokens), dataset), Tail(tokens), dataset)

validate_tokens(tokens, dataset) ==
    LET acc == ValidateLoop([validation_results |-> <<>>, valid_tokens |-> <<>>,
                             invalid_tokens |-> <<>>], tokens, dataset)
    IN
    [status_code |-> 200,
     body |-> [validation_results |-> acc.validation_results,
               summary |-> [total_tokens |-> Len(tokens),
                            valid_count |-> Len(acc.valid_tokens),
                            invalid_count |-> Len(acc.invalid_tokens),
                            valid_tokens |-> acc.valid_tokens,
                            invalid_tokens |-> acc.invalid_tokens]]]

ValidateTokens ==
    /\ phase = "serving"
    /\ endpoint = "none"
    /\ \E tokens \in TokenLists :
         /\ endpoint' = "/validate-tokens"
         /\ request' = tokens
         /\ response' = validate_tokens(tokens, asl_dataset)
    /\ crewLog' = NoCrew
    /\ UNCHANGED <<phase, file, env, startupError, asl_dataset, crewCount>>

----------------------------------------------------------------------------
(* The server loop: app.py:186-188 *)

NoResponse == [status_code |-> 0]

\* The response is sent and the handler's frame is gone; the handlers are
\* coroutines without an await, so each runs to completion before the event
\* loop takes the next request.
Reply ==
    /\ phase = "serving"
    /\ endpoint # "none"
    /\ endpoint' = "none"
    /\ request' = <<>>
    /\ response' = NoResponse
    /\ crewLog' = NoCrew
    /\ UNCHANGED <<phase, file, env, startupError, asl_dataset, crewCount>>

----------------------------------------------------------------------------

Init ==
    /\ phase = "starting"
    /\ file \in Files
    /\ env \in Envs
    /\ startupError = ""
    /\ asl_dataset = <<>>
    /\ endpoint = "none"
    /\ request = <<>>
    /\ response = NoResponse
    /\ crewCount = 0
    /\ crewLog = NoCrew

Next ==
    \/ LoadDataset
    \/ Root
    \/ HealthCheck
    \/ ProcessTokens
    \/ GetAslDataset
    \/ ValidateTokens
    \/ Reply

Spec == Init /\ [][Next]_vars

----------------------------------------------------------------------------
(* Properties *)

\* an API credential is configured: OPENAI_API_KEY is set and not empty
HasCredential == env.set /\ Len(env.value) > 0

Range(l) == { l[i] : i \in 1..Len(l) }

\* sub occurs in s as a contiguous run of fragments
Contains(s, sub) ==
    \E i \in 1..(Len(s) + 1) :
        /\ i + Len(sub) - 1 <= Len(s)
        /\ \A j \in 1..Len(sub) : s[i + j - 1] = sub[j]

Count(steps, name) == Cardinality({ i \in 1..Len(steps) : steps[i] = name })

\* the response is an HTTP error with the given status
IsHTTPError(r, code) == r.status_code = code /\ "detail" \in DOMAIN r

\* C1: a /process-tokens request with an empty words list, made with a
\* credential configured, leaves the handler as an HTTP 400 error.
C1_EmptyWordsGives400 ==
    (endpoint = "/process-tokens" /\ HasCredential /\ request.words = <<>>)
        => IsHTTPError(response, 400)

\* C2: a /process-tokens request made with no credential (unset or empty)
\* fails with HTTP 500, whether words is empty or not.
C2_NoCredentialGives500 ==
    (endpoint = "/process-tokens" /\ ~HasCredential)
        => IsHTTPError(response, 500)

C2_Witness ==
    /\ endpoint = "/process-tokens"
    /\ env.set /\ env.value = <<>>
    /\ request.words # <<>>
    /\ crewLog.outcome.at = "none"
    /\ response.status_code = 500

\* C3: with a credential and non-empty words, an exception raised while
\* creating the crew or in kickoff becomes an HTTP 500 whose message contains
\* the exception's text; a normal return gives {result: str(crew result)}.
C3_CrewFailureIs500 ==
    (endpoint = "/process-tokens" /\ HasCredential /\ request.words # <<>>)
        => IF crewLog.outcome.at = "none"
             THEN /\ response.status_code = 200
                  /\ response.body = [result |-> crewLog.outcome.result.raw]
             ELSE /\ IsHTTPError(response, 500)
                  /\ Contains(response.detail, crewLog.outcome.text)

C3_Witness ==
    /\ endpoint = "/process-tokens"
    /\ HasCredential
    /\ request.words # <<>>
    /\ crewLog.outcome.at = "kickoff"
    /\ crewLog.outcome.text = <<"rate limit">>
    /\ response.status_code = 500

RECURSIVE Picked(_, _, _, _)
\* the entries of l from position i on whose mask value is b, in order
Picked(l, mask, b, i) ==
    IF i > Len(l) THEN <<>>
    ELSE IF mask[i] = b THEN <<l[i]>> \o Picked(l, mask, b, i + 1)
    ELSE Picked(l, mask, b, i + 1)

UpperEach(l) == [i \in 1..Len(l) |-> Upper(l[i])]

\* C4: the /validate-tokens summary has valid_count + invalid_count =
\* total_tokens = length of the input, and every input position contributes
\* to exactly one of valid_tokens and invalid_tokens.
C4_CountsPartitionInput ==
    endpoint = "/validate-tokens" =>
        LET s == response.body.summary IN
          /\ s.total_tokens = Len(request)
          /\ s.valid_count + s.invalid_count = s.total_tokens
          /\ s.valid_count = Len(s.valid_tokens)
          /\ s.invalid_count = Len(s.invalid_tokens)
          /\ \E mask \in [1..Len(request) -> BOOLEAN] :
               /\ s.valid_tokens = UpperEach(Picked(request, mask, TRUE, 1))
               /\ s.invalid_tokens = Picked(request, mask, FALSE, 1)

C4_Witness ==
    /\ endpoint = "/validate-tokens"
    /\ Len(request) = 3
    /\ request[1] = request[3]
    /\ Upper(request[1]) = Upper(request[2]) /\ request[1] # request[2]
    /\ response.body.summary.valid_count = 3

\* C5: every token is uppercased before the lookup: it is valid iff its
\* uppercased form is in the vocabulary; a valid token is recorded uppercased
\* in valid_tokens and normalized, an invalid one as given with normalized None.
C5_LookupIsUppercased ==
    endpoint = "/validate-tokens" =>
        LET s == response.body.summary
            vr == response.body.validation_results
        IN
          /\ \A i \in 1..Len(request) :
               LET t == request[i] IN
                 IF Upper(t) \in Range(asl_dataset)
                   THEN /\ vr[t] = [valid |-> TRUE, normalized |-> <<Upper(t)>>]
                        /\ Upper(t) \in Range(s.valid_tokens)
                   ELSE /\ vr[t] = [valid |-> FALSE, normalized |-> <<>>]
                        /\ t \in Range(s.invalid_tokens)
          /\ \A x \in Range(s.valid_tokens) :
               /\ x \in Range(asl_dataset)
               /\ \E i \in 1..Len(request) : Upper(request[i]) = x
          /\ \A x \in Range(s.invalid_tokens) :
               /\ Upper(x) \notin Range(asl_dataset)
               /\ x \in Range(request)

C5_Witness ==
    /\ endpoint = "/validate-tokens"
    /\ \E i, j \in 1..Len(request) :
         /\ Upper(request[i]) # request[i]
         /\ Upper(request[i]) \in Range(response.body.summary.valid_tokens)
         /\ Upper(request[j]) # request[j]
         /\ request[j] \in Range(response.body.summary.invalid_tokens)

\* C6: /health succeeds, reports "healthy" iff a non-empty OPENAI_API_KEY is
\* configured and "warning" otherwise, and asl_dataset_size is the number of
\* entries of the loaded vocabulary.
C6_HealthStatus ==
    endpoint = "/health" =>
        /\ response.status_code = 200
        /\ response.body.status = IF HasCredential THEN "healthy" ELSE "warning"
        /\ response.body.asl_dataset_size = Len(asl_dataset)
        /\ response.body.asl_dataset_size = Len(file.values)

C6_Witness ==
    /\ endpoint = "/health"
    /\ env.set /\ env.value = <<>>
    /\ response.body.status = "warning"
    /\ response.body.asl_dataset_size > 0

\* the characters str.upper() changes
LowerChars == {"a", "b", "s", "ß"}
IsUpperStr(s) == \A i \in 1..Len(s) : s[i] \notin LowerChars

\* C7: with the vocabulary file missing, startup fails with a RuntimeError
\* and no endpoint is ever served; whenever an endpoint handles a request the
\* vocabulary has been loaded and every entry is an uppercased string.
C7_MissingFileFailsStartup ==
    /\ (file.kind = "missing" /\ phase # "starting")
          => (phase = "failed" /\ startupError = "RuntimeError")
    /\ file.kind = "missing" => (endpoint = "none" /\ response = NoResponse)
    /\ endpoint # "none" =>
          /\ phase = "serving"
          /\ file.kind = "object"
          /\ Len(asl_dataset) = Len(file.values)
          /\ \A i \in 1..Len(asl_dataset) :
               /\ file.values[i].type = "str"
               /\ asl_dataset[i] = Upper(file.values[i].val)
               /\ IsUpperStr(asl_dataset[i])

C7_Witness ==
    /\ file.kind = "missing"
    /\ phase = "failed"
    /\ startupError = "RuntimeError"

\* C8: /asl-dataset returns total_words = number of vocabulary entries and
\* sample_words = the first min(20, total_words) entries in load order, and
\* leaves the vocabulary as it was loaded.
C8_SampleIsFirstTwenty ==
    endpoint = "/asl-dataset" =>
        LET b == response.body
            n == IF Len(asl_dataset) < SampleSize THEN Len(asl_dataset) ELSE SampleSize
        IN
          /\ response.status_code = 200
          /\ b.total_words = Len(asl_dataset)
          /\ Len(b.sample_words) = n
          /\ \A i \in 1..n : b.sample_words[i] = asl_dataset[i]
          /\ asl_dataset = [i \in 1..Len(file.values) |-> Upper(file.values[i].val)]

C8_Witness ==
    /\ endpoint = "/asl-dataset"
    /\ response.body.total_words > SampleSize
    /\ Len(response.body.sample_words) = SampleSize

CrewSteps == {"get_crew_instance", "sgin_gpt_crew", "kickoff"}

\* the credential check comes first, the empty-input check second, and every
\* use of the crew after both
ChecksPrecedeCrew(steps) ==
    /\ Len(steps) >= 1 /\ steps[1] = "getenv"
    /\ \A i \in 1..Len(steps) :
         /\ steps[i] = "getenv" => i = 1
         /\ steps[i] = "words" => i = 2
         /\ steps[i] \in CrewSteps => (i > 2 /\ steps[2] = "words")

\* every kickoff of the request is on an instance that did not exist before
\* it and gets the request's words and the loaded vocabulary
KickoffsAreFresh ==
    \A i \in 1..Len(crewLog.kickoffs) :
        LET k == crewLog.kickoffs[i] IN
          /\ k.instance \notin 1..crewLog.existing
          /\ k.inputs = [words |-> request.words, ASL_dataset |-> asl_dataset]

\* C9 as stated: the crew is instantiated and kicked off exactly once when
\* the credential is configured and words is non-empty, zero times otherwise.
C9_KickedOffExactlyOnce ==
    endpoint = "/process-tokens" =>
        /\ ChecksPrecedeCrew(crewLog.steps)
        /\ KickoffsAreFresh
        /\ IF HasCredential /\ request.words # <<>>
             THEN /\ Count(crewLog.steps, "get_crew_instance") = 1
                  /\ Count(crewLog.steps, "kickoff") = 1
                  /\ Len(crewLog.kickoffs) = 1
             ELSE /\ Count(crewLog.steps, "get_crew_instance") = 0
                  /\ Count(crewLog.steps, "kickoff") = 0
                  /\ Len(crewLog.kickoffs) = 0

\* C9 (amended): the credential check precedes the empty-input check and both
\* precede the crew; with a credential and non-empty words get_crew_instance
\* is called exactly once and kickoff exactly once unless SginGPTCrew() or
\* sgin_gpt_crew() raised, in which case kickoff is not called; otherwise the
\* crew is not touched. Every kickoff is on a fresh instance and gets the
\* request's words and the loaded vocabulary.
C9_CrewUsedAtMostOnce ==
    endpoint = "/process-tokens" =>
        /\ ChecksPrecedeCrew(crewLog.steps)
        /\ KickoffsAreFresh
        /\ IF HasCredential /\ request.words # <<>>
             THEN LET built == crewLog.outcome.at \notin {"SginGPTCrew", "sgin_gpt_crew"}
                      n == IF built THEN 1 ELSE 0
                  IN
                  /\ Count(crewLog.steps, "get_crew_instance") = 1
                  /\ Count(crewLog.steps, "kickoff") = n
                  /\ Len(crewLog.kickoffs) = n
             ELSE /\ Count(crewLog.steps, "get_crew_instance") = 0
                  /\ Count(crewLog.steps, "kickoff") = 0
                  /\ Len(crewLog.kickoffs) = 0

C9_Witness ==
    /\ endpoint = "/process-tokens"
    /\ crewLog.existing = 1
    /\ Len(crewLog.kickoffs) = 1
    /\ crewLog.kickoffs[1].instance = 2
    /\ response.status_code = 200

\* C10: the keys of validation_results are exactly the distinct input tokens
\* as given, and for every key valid is true iff the uppercased token is in
\* valid_tokens and false iff the token is in invalid_tokens.
C10_ResultKeysAreInputs ==
    endpoint = "/validate-tokens" =>
        LET s == response.body.summary
            vr == response.body.validation_results
        IN
          /\ DOMAIN vr = Range(request)
          /\ \A k \in DOMAIN vr :
               /\ vr[k].valid \in BOOLEAN
               /\ vr[k].valid <=> Upper(k) \in Range(s.valid_tokens)
               /\ ~vr[k].valid <=> k \in Range(s.invalid_tokens)

C10_Witness ==
    /\ endpoint = "/validate-tokens"
    /\ Len(request) = 3
    /\ request[1] = request[2]
    /\ Upper(request[3]) = Upper(request[1]) /\ request[3] # request[1]
    /\ Cardinality(DOMAIN response.body.validation_results) = 2

====
